---- MODULE Spec2Model ----
(***************************************************************************)
(* Model of Braniac.py: a Tkinter quiz game.  The state is the module's    *)
(* globals (questions, current_question_index, score, selected_topic,      *)
(* TRIVIA_API_PARAMETERS), the widget tree under root, the welcome         *)
(* screen's dropdown variable and the leaderboard file.  Every Tk callback *)
(* runs to completion, so each callback is one action.                     *)
(*                                                                         *)
(* Text is modelled as sequences of one-character strings, so that         *)
(* str.strip, str.split, int() and the f-string formatting are computed    *)
(* rather than assumed.  Answers of questions are atomic tokens on which   *)
(* html.unescape is a non-identity map.                                    *)
(***************************************************************************)
EXTENDS Integers, Sequences, FiniteSets, TLC

VARIABLES
  questions,               \* global questions (line 38, 257-258)
  current_question_index,  \* global (line 39)
  score,                   \* global (line 40)
  selected_topic,          \* global (line 41)
  TRIVIA_API_PARAMETERS,   \* global dict (line 20), mutated by fetch_questions
  topic_dropdown,          \* StringVar of the welcome screen (line 193)
  children,                \* root.winfo_children(), in pack order
  buttons,                 \* global list of the answer buttons (line 54)
  score_label,             \* text of score_label, <<>> while None
  progress_counter_label,  \* text of progress_counter_label, <<>> while None
  file,                    \* content of leaderboard.txt, a character sequence
  request,                 \* params of the last requests.get, <<>> before the first
  session_topic,           \* argument of the last start_quiz call, <<>> before the first
  submitted,               \* <<selected_option, correct_answer>> of every check_answer since the last start_quiz
  saves                    \* number of save_score calls of this run

vars == <<questions, current_question_index, score, selected_topic,
          TRIVIA_API_PARAMETERS, topic_dropdown, children, buttons,
          score_label, progress_counter_label, file, request, session_topic,
          submitted, saves>>

-----------------------------------------------------------------------------
(* Bounds of the model *)

MaxQ == 2        \* Spec: longest question list the question source returns
MaxSaves == 1    \* Spec: save_score calls explored in one run
MaxSavesLB == 2  \* SpecLB: save_score calls explored in one run

-----------------------------------------------------------------------------
(* Program constants *)

None == 0        \* Python's None as the value of TOPICS["Mixed"]; no category has id 0

TOPICS ==
  [t \in {"Mixed", "General Knowledge", "Entertainment: Music",
          "Science: Computers", "History", "Sports"} |->
     CASE t = "Mixed" -> None
       [] t = "General Knowledge" -> 9
       [] t = "Entertainment: Music" -> 12
       [] t = "Science: Computers" -> 18
       [] t = "History" -> 23
       [] t = "Sports" -> 21]

InitialParameters == [amount |-> 10, difficulty |-> "medium", type |-> "multiple"]

TopN == 10       \* scores[:10]

Anonymous == <<"A", "n", "o", "n", "y", "m", "o", "u", "s">>

-----------------------------------------------------------------------------
(* Text primitives of Python used by the program *)

Whitespace == {" ", "\t", "\n", "\r"}

Digit == {"0", "1", "2", "3", "4", "5", "6", "7", "8", "9"}

DigitVal(c) ==
  CASE c = "0" -> 0 [] c = "1" -> 1 [] c = "2" -> 2 [] c = "3" -> 3
    [] c = "4" -> 4 [] c = "5" -> 5 [] c = "6" -> 6 [] c = "7" -> 7
    [] c = "8" -> 8 [] c = "9" -> 9

DigitChar(d) ==
  CASE d = 0 -> "0" [] d = 1 -> "1" [] d = 2 -> "2" [] d = 3 -> "3"
    [] d = 4 -> "4" [] d = 5 -> "5" [] d = 6 -> "6" [] d = 7 -> "7"
    [] d = 8 -> "8" [] d = 9 -> "9"

RECURSIVE lstrip(_)
lstrip(s) ==
  IF s # <<>> /\ Head(s) \in Whitespace THEN lstrip(Tail(s)) ELSE s

RECURSIVE rstrip(_)
rstrip(s) ==
  IF s # <<>> /\ s[Len(s)] \in Whitespace
  THEN rstrip(SubSeq(s, 1, Len(s) - 1)) ELSE s

\* str.strip()
strip(s) == rstrip(lstrip(s))

\* str.split(sep): the fields between the occurrences of sep
RECURSIVE split(_, _)
split(s, sep) ==
  IF \E i \in 1..Len(s) : s[i] = sep
  THEN LET i == CHOOSE k \in 1..Len(s) :
                  s[k] = sep /\ \A j \in 1..(k - 1) : s[j] # sep
       IN  <<SubSeq(s, 1, i - 1)>> \o split(SubSeq(s, i + 1, Len(s)), sep)
  ELSE <<s>>

\* iteration over a text file: the lines, without their terminator
RECURSIVE readlines(_)
readlines(f) ==
  IF f = <<>> THEN <<>>
  ELSE IF \E i \in 1..Len(f) : f[i] = "\n"
  THEN LET i == CHOOSE k \in 1..Len(f) :
                  f[k] = "\n" /\ \A j \in 1..(k - 1) : f[j] # "\n"
       IN  <<SubSeq(f, 1, i - 1)>> \o readlines(SubSeq(f, i + 1, Len(f)))
  ELSE <<f>>

\* format of a non-negative integer in an f-string
RECURSIVE natstr(_)
natstr(n) ==
  IF n < 10 THEN <<DigitChar(n)>>
  ELSE natstr(n \div 10) \o <<DigitChar(n % 10)>>

\* f"{score}"
str(n) == IF n < 0 THEN <<"-">> \o natstr(0 - n) ELSE natstr(n)

RECURSIVE digitsval(_, _)
digitsval(s, acc) ==
  IF s = <<>> THEN acc
  ELSE IF Head(s) = "_" THEN digitsval(Tail(s), acc)
  ELSE digitsval(Tail(s), 10 * acc + DigitVal(Head(s)))

\* int(text): surrounding whitespace, an optional sign, digits with single
\* underscores between them; anything else raises ValueError
int(text) ==
  LET t == strip(text)
      signed == t # <<>> /\ Head(t) \in {"+", "-"}
      body == IF signed THEN Tail(t) ELSE t
      ok == /\ body # <<>>
            /\ \A i \in 1..Len(body) : body[i] \in Digit \cup {"_"}
            /\ body[1] \in Digit
            /\ body[Len(body)] \in Digit
            /\ \A i \in 1..(Len(body) - 1) : ~(body[i] = "_" /\ body[i + 1] = "_")
      v == IF ok THEN digitsval(body, 0) ELSE 0
  IN  [ValueError |-> ~ok,
       value |-> IF signed /\ Head(t) = "-" THEN 0 - v ELSE v]

\* html.unescape on the answer tokens of the model
unescape(s) ==
  CASE s = "&amp;" -> "&"
    [] s = "&lt;" -> "<"
    [] OTHER -> s

-----------------------------------------------------------------------------
(* Leaderboard helpers *)

\* line_scores without the try/except around int(): ValueError leaves the loop
line_scores_uncaught(raw) ==
  LET line == strip(raw)
      parts == split(line, ",")
  IN  IF line # <<>> /\ Len(parts) = 2
      THEN LET r == int(parts[2])
           IN  IF r.ValueError THEN [raised |-> TRUE, scores |-> <<>>]
               ELSE [raised |-> FALSE, scores |-> <<<<parts[1], r.value>>>>]
      ELSE [raised |-> FALSE, scores |-> <<>>]

\* one iteration of the loop of show_leaderboard over the lines of the file
line_scores(raw) ==
  LET line == strip(raw)
      parts == split(line, ",")
  IN  IF line # <<>> /\ Len(parts) = 2
      THEN LET r == int(parts[2])
               player_score == IF r.ValueError THEN 0 ELSE r.value
           IN  [raised |-> FALSE, scores |-> <<<<parts[1], player_score>>>>]
      ELSE [raised |-> FALSE, scores |-> <<>>]

\* the loop that fills scores; raised tells that an exception left the loop
RECURSIVE read_lines(_, _)
read_lines(lines, acc) ==
  IF lines = <<>> THEN [raised |-> FALSE, scores |-> acc]
  ELSE LET r == line_scores(Head(lines))
       IN  IF r.raised THEN [raised |-> TRUE, scores |-> acc]
           ELSE read_lines(Tail(lines), acc \o r.scores)

read_scores(f) == read_lines(readlines(f), <<>>)

\* insert_desc of an ascending stable sort that is reversed afterwards: equal
\* scores come out in the opposite order
insert_desc_reversed(sorted, e) ==
  LET k == Cardinality({i \in 1..Len(sorted) : sorted[i][2] > e[2]})
  IN  SubSeq(sorted, 1, k) \o <<e>> \o SubSeq(sorted, k + 1, Len(sorted))

\* list.sort(key=score, reverse=True) is stable: an element is placed behind
\* every element whose score is not smaller
insert_desc(sorted, e) ==
  LET k == Cardinality({i \in 1..Len(sorted) : sorted[i][2] >= e[2]})
  IN  SubSeq(sorted, 1, k) \o <<e>> \o SubSeq(sorted, k + 1, Len(sorted))

RECURSIVE sort_desc(_, _)
sort_desc(s, acc) ==
  IF s = <<>> THEN acc ELSE sort_desc(Tail(s), insert_desc(acc, Head(s)))

\* scores[:10], one row per label "i. player - scr"
top(scores) ==
  SubSeq(scores, 1, IF Len(scores) < TopN THEN Len(scores) ELSE TopN)

\* save_score opening the file with mode "w"
save_score_truncating(f, name, sc) == name \o <<",">> \o str(sc) \o <<"\n">>

\* the file after save_score(name, score)
save_score(f, name, sc) == f \o name \o <<",">> \o str(sc) \o <<"\n">>

-----------------------------------------------------------------------------
(* Widgets *)

Frame(kind, final, rows) == [kind |-> kind, final |-> final, rows |-> rows]

WelcomeFrame == Frame("welcome", 0, <<>>)       \* the widgets of welcome_screen
QuizFrame == Frame("quiz", 0, <<>>)             \* quiz_frame
EndFrame(sc) == Frame("end", sc, <<>>)          \* end_frame, with score_display
LeaderboardFrame(rows) == Frame("leaderboard", 0, rows)

Shown(kind) == \E i \in 1..Len(children) : children[i].kind = kind

BlankButton == [text |-> "", command |-> <<>>]

-----------------------------------------------------------------------------
(* Inputs *)

TopicInputs == {"Mixed", "History"}
TopicInputsLB == {"Mixed"}

NameInputs == {<<"a">>}
NameInputsLB == {<<>>, <<" ">>, <<"a">>, <<" ", "a">>, <<"a", " ">>}

Q1 == [question |-> "q1", correct_answer |-> "&amp;",
       incorrect_answers |-> <<"&lt;", "&lt;", "&lt;">>]
Q2 == [question |-> "q2", correct_answer |-> "a",
       incorrect_answers |-> <<"b", "b", "b">>]

\* what data["results"] can be: Q1, Q2, Q1, ... up to a length
source_results(max) == {[i \in 1..n |-> IF i % 2 = 1 THEN Q1 ELSE Q2] : n \in 0..max}

FetchResults == source_results(MaxQ)
FetchResultsLB == {<<>>, <<Q2>>}

\* the outcomes of random.shuffle: the sequences with the elements of s, each
\* as often as in s
shuffle(s) ==
  LET elems == {s[i] : i \in 1..Len(s)}
      count(t, v) == Cardinality({i \in 1..Len(t) : t[i] = v})
  IN  {t \in [1..Len(s) -> elems] : \A v \in elems : count(t, v) = count(s, v)}

MalformedFile ==
  <<"c", ",", "x", "\n", "\n", "d", "\n", "e", ",", "1", ",", "2", "\n",
    " ", "f", ",", "2", "0", " ", "\n", "g", ",", "-", "5", "\n">>

TenLineFile ==
  <<"a", ",", "1", "0", "\n", "b", ",", "2", "0", "\n", "c", ",", "1", "0", "\n",
    "d", ",", "0", "\n", "e", ",", "2", "0", "\n", "f", ",", "3", "0", "\n",
    "g", ",", "0", "\n", "h", ",", "1", "0", "\n", "i", ",", "2", "0", "\n",
    "j", ",", "0", "\n">>

InitFiles == {<<>>, MalformedFile, TenLineFile}

-----------------------------------------------------------------------------
(* Operations *)

\* TRIVIA_API_PARAMETERS after lines 147-149
fetch_params(params, topic) ==
  LET set == [k \in DOMAIN params \cup {"category"} |->
                IF k = "category" THEN TOPICS[topic] ELSE params[k]]
  IN  IF topic = "Mixed"
      THEN [k \in DOMAIN set \ {"category"} |-> set[k]]
      ELSE set

fetch_questions ==
  /\ TRIVIA_API_PARAMETERS' = fetch_params(TRIVIA_API_PARAMETERS, selected_topic)
  /\ request' = TRIVIA_API_PARAMETERS'

\* welcome_screen recording the score when a quiz or a results screen is left
welcome_screen_saving ==
  /\ children' = <<WelcomeFrame>>
  /\ topic_dropdown' = "Mixed"
  /\ file' = save_score(file, Anonymous, score)
  /\ UNCHANGED <<questions, current_question_index, score, selected_topic,
                 TRIVIA_API_PARAMETERS, buttons, score_label,
                 progress_counter_label, request, session_topic,
                 submitted, saves>>

welcome_screen ==
  /\ children' = <<WelcomeFrame>>
  /\ topic_dropdown' = "Mixed"
  /\ UNCHANGED <<questions, current_question_index, score, selected_topic,
                 TRIVIA_API_PARAMETERS, buttons, score_label,
                 progress_counter_label, file, request, session_topic,
                 submitted, saves>>

\* the OptionMenu sets its variable, then calls select_topic
select_topic(topic) ==
  /\ selected_topic' = topic
  /\ topic_dropdown' = topic
  /\ UNCHANGED <<questions, current_question_index, score,
                 TRIVIA_API_PARAMETERS, children, buttons, score_label,
                 progress_counter_label, file, request, session_topic,
                 submitted, saves>>

\* end_screen without the loop that destroys root's children
end_screen_keeping(sc) == children' = Append(children, EndFrame(sc))

end_screen(sc) == children' = <<EndFrame(sc)>>

\* update_question testing index > len(questions): questions[index] raises
\* IndexError after the last answer and the quiz screen stays
update_question_late(index, qs, sc, kids, btns, counter) ==
  IF index > Len(qs)
  THEN /\ end_screen(sc)
       /\ buttons' = btns
       /\ progress_counter_label' = counter
  ELSE IF index = Len(qs)
  THEN /\ children' = kids
       /\ buttons' = btns
       /\ progress_counter_label' = counter
  ELSE LET q == qs[index + 1]
       IN  /\ buttons' = [i \in 1..Len(btns) |->
                            [text |-> unescape(q.correct_answer),
                             command |-> <<unescape(q.correct_answer),
                                           unescape(q.correct_answer)>>]]
           /\ progress_counter_label' = <<index + 1, Len(qs)>>
           /\ children' = kids

\* update_question testing index + 1 >= len(questions): the results screen
\* comes one question early
update_question_early(index, qs, sc, kids, btns, counter) ==
  IF index + 1 >= Len(qs)
  THEN /\ end_screen(sc)
       /\ buttons' = btns
       /\ progress_counter_label' = counter
  ELSE LET q == qs[index + 1]
           options == [i \in 1..Len(q.incorrect_answers) |->
                         unescape(q.incorrect_answers[i])]
                      \o <<unescape(q.correct_answer)>>
       IN  \E shuffled \in shuffle(options) :
             /\ buttons' = [i \in 1..Len(btns) |->
                              IF i <= Len(shuffled)
                              THEN [text |-> shuffled[i],
                                    command |-> <<shuffled[i],
                                                  unescape(q.correct_answer)>>]
                              ELSE btns[i]]
             /\ progress_counter_label' = <<index + 1, Len(qs)>>
             /\ children' = kids

\* update_question with the globals as they are when it is called
update_question(index, qs, sc, kids, btns, counter) ==
  IF index >= Len(qs)
  THEN /\ end_screen(sc)
       /\ buttons' = btns
       /\ progress_counter_label' = counter
  ELSE LET q == qs[index + 1]     \* Python indexes from 0
           options == [i \in 1..Len(q.incorrect_answers) |->
                         unescape(q.incorrect_answers[i])]
                      \o <<unescape(q.correct_answer)>>
       IN  \E shuffled \in shuffle(options) :
             /\ buttons' = [i \in 1..Len(btns) |->
                              IF i <= Len(shuffled)
                              THEN [text |-> shuffled[i],
                                    command |-> <<shuffled[i],
                                                  unescape(q.correct_answer)>>]
                              ELSE btns[i]]
             /\ progress_counter_label' = <<index + 1, Len(qs)>>
             /\ children' = kids

\* start_quiz without "score = 0"
start_quiz_keeping_score(topic, result) ==
  /\ current_question_index' = 0
  /\ score' = score
  /\ fetch_questions
  /\ \E shuffled \in shuffle(result) :
       /\ questions' = shuffled
       /\ update_question(0, shuffled, score, <<QuizFrame>>,
                          [i \in 1..4 |-> BlankButton], <<0, Len(shuffled)>>)
  /\ score_label' = <<score>>
  /\ session_topic' = <<topic>>
  /\ submitted' = <<>>
  /\ UNCHANGED <<selected_topic, topic_dropdown, file, saves>>

\* start_quiz when fetch_questions returns result
start_quiz(topic, result) ==
  /\ current_question_index' = 0
  /\ score' = 0
  /\ fetch_questions
  /\ \E shuffled \in shuffle(result) :
       /\ questions' = shuffled
       /\ update_question(0, shuffled, 0, <<QuizFrame>>,
                          [i \in 1..4 |-> BlankButton], <<0, Len(shuffled)>>)
  /\ score_label' = <<0>>
  /\ session_topic' = <<topic>>
  /\ submitted' = <<>>
  /\ UNCHANGED <<selected_topic, topic_dropdown, file, saves>>

\* start_quiz clearing the window before it fetches: a failing fetch leaves
\* an empty window
start_quiz_raises_cleared(topic) ==
  /\ current_question_index' = 0
  /\ score' = 0
  /\ fetch_questions
  /\ children' = <<>>
  /\ session_topic' = <<topic>>
  /\ submitted' = <<>>
  /\ UNCHANGED <<questions, selected_topic, topic_dropdown, buttons,
                 score_label, progress_counter_label, file, saves>>

\* start_quiz when requests.get, response.json or data["results"] raises
start_quiz_raises(topic) ==
  /\ current_question_index' = 0
  /\ score' = 0
  /\ fetch_questions
  /\ session_topic' = <<topic>>
  /\ submitted' = <<>>
  /\ UNCHANGED <<questions, selected_topic, topic_dropdown, children, buttons,
                 score_label, progress_counter_label, file, saves>>

\* check_answer comparing the option with the answer as the API sent it: the
\* correct option of a question whose answer holds an HTML entity scores nothing
check_answer_raw(selected_option, correct_answer) ==
  /\ score' = IF \E q \in {Q1, Q2} : /\ unescape(q.correct_answer) = correct_answer
                                     /\ selected_option = q.correct_answer
              THEN score + 10 ELSE score
  /\ score_label' = <<score'>>
  /\ current_question_index' = current_question_index + 1
  /\ update_question(current_question_index', questions, score', children,
                     buttons, progress_counter_label)
  /\ submitted' = Append(submitted, <<selected_option, correct_answer>>)
  /\ UNCHANGED <<questions, selected_topic, TRIVIA_API_PARAMETERS,
                 topic_dropdown, file, request, session_topic, saves>>

\* check_answer advancing the index by 2
check_answer_skipping(selected_option, correct_answer) ==
  /\ score' = IF selected_option = correct_answer THEN score + 10 ELSE score
  /\ score_label' = <<score'>>
  /\ current_question_index' = current_question_index + 2
  /\ update_question(current_question_index', questions, score', children,
                     buttons, progress_counter_label)
  /\ submitted' = Append(submitted, <<selected_option, correct_answer>>)
  /\ UNCHANGED <<questions, selected_topic, TRIVIA_API_PARAMETERS,
                 topic_dropdown, file, request, session_topic, saves>>

check_answer(selected_option, correct_answer) ==
  /\ score' = IF selected_option = correct_answer THEN score + 10 ELSE score
  /\ score_label' = <<score'>>
  /\ current_question_index' = current_question_index + 1
  /\ update_question(current_question_index', questions, score', children,
                     buttons, progress_counter_label)
  /\ submitted' = Append(submitted, <<selected_option, correct_answer>>)
  /\ UNCHANGED <<questions, selected_topic, TRIVIA_API_PARAMETERS,
                 topic_dropdown, file, request, session_topic, saves>>

\* show_leaderboard on the file f: a new frame is packed under root, nothing
\* is destroyed
show_leaderboard(f) ==
  LET r == read_scores(f)
  IN  IF r.raised THEN children' = children
      ELSE children' =
             Append(children, LeaderboardFrame(top(sort_desc(r.scores, <<>>))))

\* submit_score testing "if not name": a name of blanks is stored as it is
submit_score_unstripped(name) ==
  LET stored == IF name = <<>> THEN Anonymous ELSE name
  IN  /\ file' = save_score(file, stored, score)
      /\ saves' = saves + 1
      /\ show_leaderboard(file')
      /\ UNCHANGED <<questions, current_question_index, score, selected_topic,
                     TRIVIA_API_PARAMETERS, topic_dropdown, buttons,
                     score_label, progress_counter_label, request,
                     session_topic, submitted>>

submit_score(name) ==
  LET stored == IF strip(name) = <<>> THEN Anonymous ELSE name
  IN  /\ file' = save_score(file, stored, score)
      /\ saves' = saves + 1
      /\ show_leaderboard(file')
      /\ UNCHANGED <<questions, current_question_index, score, selected_topic,
                     TRIVIA_API_PARAMETERS, topic_dropdown, buttons,
                     score_label, progress_counter_label, request,
                     session_topic, submitted>>

-----------------------------------------------------------------------------------------------------------------------------------------------------
(* The user's actions: a callback runs when its widget exists *)

SelectTopic(topics) ==
  Shown("welcome") /\ \E topic \in topics : select_topic(topic)

StartQuiz(results) ==
  Shown("welcome") /\ \E result \in results : start_quiz(topic_dropdown, result)

StartQuizRaises == Shown("welcome") /\ start_quiz_raises(topic_dropdown)

CheckAnswer ==
  /\ Shown("quiz")
  /\ \E i \in 1..Len(buttons) :
       /\ buttons[i].command # <<>>
       /\ check_answer(buttons[i].command[1], buttons[i].command[2])

ExitQuiz == Shown("quiz") /\ welcome_screen

SubmitScore(names, max) ==
  /\ Shown("end")
  /\ saves < max
  /\ \E name \in names : submit_score(name)

SkipLeaderboard == Shown("end") /\ welcome_screen

ReturnToMainMenu == Shown("leaderboard") /\ welcome_screen

\* the state after welcome_screen() at line 460
Start ==
  /\ questions = <<>>
  /\ current_question_index = 0
  /\ score = 0
  /\ selected_topic = "Mixed"
  /\ TRIVIA_API_PARAMETERS = InitialParameters
  /\ topic_dropdown = "Mixed"
  /\ children = <<WelcomeFrame>>
  /\ buttons = <<>>
  /\ score_label = <<>>
  /\ progress_counter_label = <<>>
  /\ request = <<>>
  /\ session_topic = <<>>
  /\ submitted = <<>>
  /\ saves = 0

-----------------------------------------------------------------------------
(* Spec: the quiz sessions, on a leaderboard file that does not exist yet *)

Init == Start /\ file = <<>>

Next ==
  \/ SelectTopic(TopicInputs)
  \/ StartQuiz(FetchResults)
  \/ StartQuizRaises
  \/ CheckAnswer
  \/ ExitQuiz
  \/ SubmitScore(NameInputs, MaxSaves)
  \/ SkipLeaderboard
  \/ ReturnToMainMenu

Spec == Init /\ [][Next]_vars

-----------------------------------------------------------------------------
(* SpecLB: the leaderboard, on the files of InitFiles and short quizzes *)

InitLB == Start /\ file \in InitFiles

NextLB ==
  \/ SelectTopic(TopicInputsLB)
  \/ StartQuiz(FetchResultsLB)
  \/ StartQuizRaises
  \/ CheckAnswer
  \/ ExitQuiz
  \/ SubmitScore(NameInputsLB, MaxSavesLB)
  \/ SkipLeaderboard
  \/ ReturnToMainMenu

SpecLB == InitLB /\ [][NextLB]_vars

-----------------------------------------------------------------------------
(* Claims *)

LastFrame == children[Len(children)]

IsPrefix(s, t) == Len(s) <= Len(t) /\ SubSeq(t, 1, Len(s)) = s

\* the answers of this session that equal the correct answer of their question
CorrectAnswers ==
  {i \in 1..Len(submitted) :
     submitted[i][1] = unescape(questions[i].correct_answer)}

\* C1: in every session the score is 10 times the number of submitted answers
\* that equal their question's correct answer, wherever in the sequence the
\* correct answers are; a wrong answer adds nothing.
C1_ScoreIsTenPerCorrectAnswer ==
  /\ Len(submitted) <= Len(questions)
  /\ score = 10 * Cardinality(CorrectAnswers)

\* a session of two answers, the first wrong and the second correct
C1_Witness ==
  /\ Len(submitted) = 2
  /\ CorrectAnswers = {2}
  /\ score = 10

\* a step of a successful start_quiz: the only callback that replaces the
\* welcome screen
StartedQuiz == Shown("welcome") /\ ~Shown("welcome")'

\* StartedQuiz holds of the steps of StartQuiz and of no other step
StartedQuizIsStartQuiz == [][StartedQuiz <=> StartQuiz(FetchResults)]_vars

\* C2: the index stays within 0..len(questions), every answer submission
\* raises it by exactly 1, and after a submission or a start the results
\* screen is shown exactly when the index equals len(questions).
C2_IndexAdvancesToResults ==
  [][/\ current_question_index \in 0..Len(questions)
     /\ current_question_index' \in 0..Len(questions')
     /\ CheckAnswer => current_question_index' = current_question_index + 1
     /\ (CheckAnswer \/ StartedQuiz) =>
          (Shown("end")' <=> current_question_index' = Len(questions'))]_vars

\* the last of two answers was submitted and the results screen is shown
C2_Witness ==
  /\ Len(questions) = 2
  /\ Len(submitted) = 2
  /\ current_question_index = 2
  /\ Shown("end")

\* C3: the request of a session started with topic T has no category when T is
\* "Mixed" and category TOPICS[T] otherwise.
C3_RequestMatchesTopic ==
  session_topic # <<>> =>
    IF session_topic[1] = "Mixed"
    THEN "category" \notin DOMAIN request
    ELSE /\ "category" \in DOMAIN request
         /\ request["category"] = TOPICS[session_topic[1]]

\* position of entry i of the file in a stable descending order by score
Rank(entries, i) ==
  1 + Cardinality({j \in 1..Len(entries) : entries[j][2] > entries[i][2]})
    + Cardinality({j \in 1..(i - 1) : entries[j][2] = entries[i][2]})

\* C4: the displayed list is in non-increasing order of score, entries of
\* equal score are in the order of their lines in the file, and the list is
\* the first 10 entries of that order.
C4_LeaderboardOrder ==
  LastFrame.kind = "leaderboard" =>
    LET entries == read_scores(file).scores
        rows == LastFrame.rows
    IN  /\ Len(rows) = IF Len(entries) < 10 THEN Len(entries) ELSE 10
        /\ \A k \in 1..(Len(rows) - 1) : rows[k][2] >= rows[k + 1][2]
        /\ \A i \in 1..Len(entries) :
             Rank(entries, i) <= 10 => rows[Rank(entries, i)] = entries[i]

\* eleven entries in the file, ten displayed, two of equal score side by side
C4_Witness ==
  /\ LastFrame.kind = "leaderboard"
  /\ Len(read_scores(file).scores) > 10
  /\ Len(LastFrame.rows) = 10
  /\ \E k \in 1..9 : /\ LastFrame.rows[k][2] = LastFrame.rows[k + 1][2]
                     /\ LastFrame.rows[k][1] # LastFrame.rows[k + 1][1]

Commas(s) == {i \in 1..Len(s) : s[i] = ","}

\* what the claim says a line yields: one entry when it has exactly two
\* fields, with score 0 when the second field is no integer
ExpectedOfLine(raw) ==
  LET s == strip(raw)
  IN  IF Cardinality(Commas(s)) = 1
      THEN LET c == CHOOSE i \in Commas(s) : TRUE
               second == SubSeq(s, c + 1, Len(s))
           IN  <<<<SubSeq(s, 1, c - 1),
                   IF int(second).ValueError THEN 0 ELSE int(second).value>>>>
      ELSE <<>>

RECURSIVE ExpectedOfLines(_)
ExpectedOfLines(lines) ==
  IF lines = <<>> THEN <<>>
  ELSE ExpectedOfLine(Head(lines)) \o ExpectedOfLines(Tail(lines))

\* C5: reading the file never aborts; a line of two fields whose second is no
\* integer yields (name, 0), a line with another number of fields is skipped,
\* and the well-formed lines of the same file are returned.
C5_MalformedLinesTolerated ==
  /\ ~read_scores(file).raised
  /\ read_scores(file).scores = ExpectedOfLines(readlines(file))

\* the leaderboard is displayed from the file with malformed lines: "c,x" is
\* shown with score 0 and " f,20 " with its score
C5_Witness ==
  /\ LastFrame.kind = "leaderboard"
  /\ IsPrefix(MalformedFile, file)
  /\ \E k \in 1..Len(LastFrame.rows) : LastFrame.rows[k] = <<<<"c">>, 0>>
  /\ \E k \in 1..Len(LastFrame.rows) : LastFrame.rows[k] = <<<<"f">>, 20>>

Blank(name) == \A i \in 1..Len(name) : name[i] \in Whitespace

\* C6: submit_score always appends a line; its name is "Anonymous" when the
\* name given is empty or all whitespace, and the name given otherwise.
C6_AnonymousForBlankName ==
  [][\A name \in NameInputsLB :
       submit_score(name) =>
         file' = file \o (IF Blank(name) THEN Anonymous ELSE name)
                      \o <<",">> \o str(score) \o <<"\n">>]_vars

\* a line of Anonymous was appended
C6_Witness ==
  /\ saves > 0
  /\ \E k \in 1..Len(file) :
       /\ k + Len(Anonymous) <= Len(file)
       /\ SubSeq(file, k, k + Len(Anonymous) - 1) = Anonymous
       /\ file[k + Len(Anonymous)] = ","

\* an answer button with its command exists
AnswerAvailable ==
  /\ Shown("quiz")
  /\ \E i \in 1..Len(buttons) : buttons[i].command # <<>>

\* C7: when the session is finished no answer can be submitted: the answer
\* buttons are gone, so score and index cannot change by an answer.
C7_NoAnswerAfterFinished ==
  current_question_index >= Len(questions) => ~AnswerAvailable

\* a finished session of two questions; the global buttons list still holds
\* the commands of the last question
C7_Witness ==
  /\ Len(questions) = 2
  /\ current_question_index = 2
  /\ Shown("end")
  /\ \E i \in 1..Len(buttons) : buttons[i].command # <<>>

\* C8: the file only grows at its end: its content, and its sequence of
\* lines, before a step is a prefix of that after the step.
C8_AppendOnly ==
  [][/\ IsPrefix(file, file')
     /\ IsPrefix(readlines(file), readlines(file'))]_vars

\* two entries were appended behind the lines the file had at the start
C8_Witness ==
  /\ saves = 2
  /\ IsPrefix(MalformedFile, file)
  /\ Len(readlines(file)) = Len(readlines(MalformedFile)) + 2

\* C9: exactly one screen is under root; after Submit Score the results
\* screen and its actions are gone.
C9_OneScreenVisible ==
  /\ Len(children) = 1
  /\ ~(Shown("leaderboard") /\ Shown("end"))

\* C10: a successful start_quiz leaves index 0 and score 0.
C10_StartResets ==
  [][StartedQuiz => current_question_index' = 0 /\ score' = 0]_vars

\* a session begins after a session whose score of 10 or 20 was submitted
C10_Witness ==
  /\ saves = 1
  /\ file # <<"a", ",", "0", "\n">>
  /\ Shown("quiz")
  /\ submitted = <<>>
  /\ current_question_index = 0
  /\ score = 0


\* C11: a start_quiz whose fetch raises leaves the welcome screen with its
\* Start button in place, presents no question, makes no answer button
\* available and writes nothing to the leaderboard; the question list is not
\* replaced.
C11_FetchFailureKeepsWelcome ==
  [][StartQuizRaises =>
       /\ children' = <<WelcomeFrame>>
       /\ ~AnswerAvailable'
       /\ questions' = questions
       /\ file' = file
       /\ saves' = saves]_vars

\* the fetch failed after a session that had scored: score is reset while the
\* destroyed score label still holds the old score
C11_Witness ==
  /\ Shown("welcome")
  /\ score_label # <<>>
  /\ score_label[1] > 0
  /\ score = 0


\* C12: after save_score(name, score) with a name without comma and line
\* break, the entries read by show_leaderboard hold an entry with exactly
\* that name and that score.
C12_RoundTrip ==
  [][\A name \in NameInputsLB :
       submit_score(name) =>
         LET stored == IF Blank(name) THEN Anonymous ELSE name
             entries == read_scores(file').scores
         IN  \E k \in 1..Len(entries) : entries[k] = <<stored, score>>]_vars


\* C13: an entry is appended only when the session is finished, all its N
\* questions answered, and its score is 10 times the number of correct
\* answers of that session.
C13_EntryCarriesFinalScore ==
  [][saves' # saves =>
       /\ current_question_index = Len(questions)
       /\ Len(submitted) = Len(questions)
       /\ \E name \in NameInputs :
            file' = file \o name \o <<",">>
                         \o str(10 * Cardinality(CorrectAnswers)) \o <<"\n">>]_vars

\* the score 10 of a finished session of two questions was submitted
C13_Witness ==
  /\ saves = 1
  /\ file = <<"a", ",", "1", "0", "\n">>
  /\ Len(questions) = 2
  /\ Len(submitted) = 2
  /\ Shown("leaderboard")


\* C14: a finished session appends at most one entry: once its score was
\* submitted, which shows the leaderboard, nothing more is appended until the
\* leaderboard is left.
C14_OneEntryPerSession ==
  [][Shown("leaderboard") => file' = file]_vars


\* C15: selecting a topic, starting a quiz, answering, Exit Quiz, Skip
\* Leaderboard and Return to Main Menu leave the leaderboard file unchanged;
\* a step that changes the file is a Submit Score.
C15_OnlySubmitWrites ==
  [][/\ (\/ SelectTopic(TopicInputs)
         \/ StartedQuiz
         \/ StartQuizRaises
         \/ CheckAnswer
         \/ ExitQuiz
         \/ SkipLeaderboard
         \/ ReturnToMainMenu) => file' = file
     /\ file' # file =>
          Shown("end") /\ \E name \in NameInputs : submit_score(name)]_vars

\* a session left through Exit Quiz with score 10; the file is still empty
C15_Witness ==
  /\ Shown("welcome")
  /\ Len(questions) = 2
  /\ current_question_index = 1
  /\ score = 10
  /\ file = <<>>


\* C16: while the quiz screen is shown j < N answers were submitted, the
\* counter reads "Question j+1 of N" and the answer buttons are those of
\* question j+1; the results screen is shown only after N submissions, with
\* the final score.
C16_ResultsAfterNAnswers ==
  /\ Shown("quiz") =>
       /\ Len(submitted) = current_question_index
       /\ current_question_index < Len(questions)
       /\ progress_counter_label = <<Len(submitted) + 1, Len(questions)>>
       /\ \A i \in 1..Len(buttons) :
            /\ buttons[i].command # <<>>
            /\ buttons[i].command[2] =
                 unescape(questions[Len(submitted) + 1].correct_answer)
  /\ Shown("end") =>
       /\ Len(submitted) = Len(questions)
       /\ current_question_index = Len(questions)
       /\ \A i \in 1..Len(children) :
            children[i].kind = "end" =>
              children[i].final = 10 * Cardinality(CorrectAnswers)

\* the second of two questions is presented after one answer
C16_Witness ==
  /\ Shown("quiz")
  /\ Len(questions) = 2
  /\ Len(submitted) = 1
  /\ progress_counter_label = <<2, 2>>


\* C17: a start_quiz that receives an empty list ends on the results screen
\* alone, with score 0 and index 0; while the question list is empty no
\* quiz screen is shown and no answer button is available.
C17_EmptyListGoesToResults ==
  [][/\ questions' = <<>> => ~Shown("quiz")' /\ ~AnswerAvailable'
     /\ (StartedQuiz /\ questions' = <<>>) =>
          /\ children' = <<EndFrame(0)>>
          /\ score' = 0
          /\ current_question_index' = 0
          /\ submitted' = <<>>]_vars

\* the results screen of a session without questions
C17_Witness ==
  /\ session_topic # <<>>
  /\ questions = <<>>
  /\ children = <<EndFrame(0)>>
  /\ submitted = <<>>

====
